---- MODULE Spec2Model ----
(***************************************************************************)
(* generate.py: the command-line driver that resolves a control argument,  *)
(* loads a PerformanceRNN session, dispatches to beam search or sampling   *)
(* and writes one MIDI file per sequence of the output batch.              *)
(*                                                                         *)
(* The script is a straight line of module-level statements; pc names the  *)
(* statement about to run.  Python values of different types are tagged    *)
(* tuples: None is <<"None">>, a path is <<"path", ...>>, a string is      *)
(* <<"str", chars>> with chars a sequence of one-character strings.        *)
(***************************************************************************)
EXTENDS Integers, Sequences, FiniteSets, TLC

\* ------------------------------------------------------------------ bounds

\* -b: batch sizes 1..MaxBatch
MaxBatch == 2
\* -b: one large batch, past the three digits of the output file name
BigBatch == 1001
\* -l: explicit max lengths -1..MaxLen (0 is the default, "not given")
MaxLen == 2
\* -B: beam sizes -1..MaxBeam
MaxBeam == 1
\* stored control arrays have 0..MaxSteps steps
MaxSteps == 2
\* len(ControlSeq.note_density_bins); sequence.py fixes it, generate.py only reads it
NumDensityBins == 3
\* the largest finite float; a sum or a literal above it is inf
FloatMax == 40

\* --------------------------------------------------------------- constants

\* the 12 pitch classes of np.ones(12) / 12 and of the size assertion
HistSize == 12
\* the minimum width of {i:03d}
NameWidth == 3

None == <<"None">>
DISABLED == <<"str", "DISABLED">>
Inf == FloatMax + 1
NaN == <<0, 0>>

\* ------------------------------------------------------- python primitives

DigitChars == <<"0", "1", "2", "3", "4", "5", "6", "7", "8", "9">>

IsDigit(c) == \E d \in 1..10 : DigitChars[d] = c

DigitVal(c) == (CHOOSE d \in 1..10 : DigitChars[d] = c) - 1

\* str.split(sep): the pieces between the separators, always at least one
RECURSIVE SplitFrom(_, _, _, _)
SplitFrom(s, sep, k, cur) ==
    IF k > Len(s) THEN <<cur>>
    ELSE IF s[k] = sep THEN <<cur>> \o SplitFrom(s, sep, k + 1, <<>>)
    ELSE SplitFrom(s, sep, k + 1, Append(cur, s[k]))

split(s, sep) == SplitFrom(s, sep, 1, <<>>)

\* filter(len, xs) gone wrong: the empty entries stay
FilterKeepAll(xs) == xs

\* filter(len, xs)
filter_len(xs) == SelectSeq(xs, LAMBDA t : Len(t) > 0)

\* the decimal digits of a string of digits, most significant first
RECURSIVE DigitsValue(_, _)
DigitsValue(s, acc) ==
    IF s = <<>> THEN acc ELSE DigitsValue(Tail(s), 10 * acc + DigitVal(Head(s)))

\* what int() and float() accept here: an optional '-' and one or more digits
IsNumeral(s) ==
    LET body == IF s # <<>> /\ Head(s) = "-" THEN Tail(s) ELSE s IN
    /\ body # <<>>
    /\ \A k \in 1..Len(body) : IsDigit(body[k])

\* int(s) of a numeral
int(s) ==
    IF Head(s) = "-" THEN 0 - DigitsValue(Tail(s), 0) ELSE DigitsValue(s, 0)

\* a double: a magnitude above FloatMax is +-inf
Saturate(x) ==
    IF x > FloatMax THEN Inf ELSE IF x < 0 - FloatMax THEN 0 - Inf ELSE x

\* float(s) of a numeral
float(s) == Saturate(int(s))

\* ndarray.sum() of non-negative doubles, left to right
RECURSIVE FloatSum(_)
FloatSum(a) ==
    IF a = <<>> THEN 0 ELSE Saturate(Head(a) + FloatSum(Tail(a)))

\* x / total for doubles x >= 0, total > 0: the quotient as <<numerator, denominator>>
FloatDiv(x, total) ==
    IF total = Inf THEN (IF x = Inf THEN NaN ELSE <<0, 1>>)
    ELSE <<x, total>>

\* np.ones(12) / 12
Uniform == [k \in 1..HistSize |-> <<1, HistSize>>]

\* pitch_histogram / pitch_histogram.sum() if pitch_histogram.sum() else np.ones(12) / 12
Normalize(a) ==
    IF FloatSum(a) # 0
    THEN [k \in 1..Len(a) |-> FloatDiv(a[k], FloatSum(a))]
    ELSE Uniform

\* the range check gone wrong: only the upper end is checked
DensityBelowBins(d) == d < NumDensityBins

\* note_density in range(len(ControlSeq.note_density_bins))
DensityInRange(d) == d >= 0 /\ d < NumDensityBins

\* the decimal digits of n >= 0, most significant first
RECURSIVE DigitSeq(_)
DigitSeq(n) ==
    IF n < 10 THEN <<DigitChars[n + 1]>>
    ELSE Append(DigitSeq(n \div 10), DigitChars[(n % 10) + 1])

Zeros(k) == [j \in 1..k |-> "0"]

\* f'{i:03d}' gone wrong: always exactly three digits, the high ones dropped
Format03dLastThree(i) ==
    Zeros(NameWidth - Len(DigitSeq(i % 1000))) \o DigitSeq(i % 1000)

\* f'{i:03d}': the digits of i, zero-padded on the left to NameWidth at least
Format03d(i) == Zeros(NameWidth - Len(DigitSeq(i))) \o DigitSeq(i)

NamePrefix == <<"o", "u", "t", "p", "u", "t", "-">>
NameSuffix == <<".", "m", "i", "d">>

\* f'output-{i:03d}.mid'
OutputName(i) == NamePrefix \o Format03d(i) \o NameSuffix

\* ------------------------------------------------------------------ inputs

\* What the user means to type after -c: a histogram half of comma-separated
\* entries and further halves after each ';'.  An entry is a number
\* <<"num", v>>, nothing <<"empty", 0>> or not a number <<"bad", 0>>.
Num(v) == <<"num", v>>
Empty == <<"empty", 0>>
Bad == <<"bad", 0>>

\* the characters of one entry, as in "2,0,1,1,0,1,0,1,1,0,0,1;4"
EntryChars(t) ==
    IF t[1] = "num" THEN (IF t[2] < 0 THEN <<"-">> \o DigitSeq(0 - t[2]) ELSE DigitSeq(t[2]))
    ELSE IF t[1] = "empty" THEN <<>>
    ELSE <<"x">>

RECURSIVE Join(_, _)
Join(ts, sep) ==
    IF ts = <<>> THEN <<>>
    ELSE IF Len(ts) = 1 THEN EntryChars(ts[1])
    ELSE EntryChars(ts[1]) \o <<sep>> \o Join(Tail(ts), sep)

RECURSIVE JoinRest(_)
JoinRest(ts) ==
    IF ts = <<>> THEN <<>> ELSE <<";">> \o EntryChars(ts[1]) \o JoinRest(Tail(ts))

\* the literal "PITCH_HISTOGRAM;NOTE_DENSITY" for a histogram half and the halves after it
ControlText(lit) == Join(lit.hist, ",") \o JoinRest(lit.rest)

\* a finite weight whose 12-fold sum is past FloatMax
BigWeight == (FloatMax \div HistSize) + 1

\* n entries, all base but the one at pos
HistPattern(n, base, special, pos) == [k \in 1..n |-> IF k = pos THEN special ELSE base]

Entries == {Num(0), Num(1), Num(2), Num(0 - 1), Num(BigWeight), Empty, Bad}

HistLens == {0, 1, HistSize - 1, HistSize, HistSize + 1}

HistHalves ==
    {HistPattern(n, b, s, p) : n \in HistLens, b \in Entries, s \in Entries, p \in {1, HistSize}}

DensityEntries ==
    {Num(0 - 1), Num(0), Num(NumDensityBins - 1), Num(NumDensityBins), Empty, Bad}

\* every literal the control resolver is run on
Literals ==
    {[hist |-> h, rest |-> <<d>>] : h \in HistHalves, d \in DensityEntries}
    \cup {[hist |-> h, rest |-> r] : h \in {<<>>, HistPattern(HistSize, Num(1), Num(1), 1)},
                                      r \in {<<>>, <<Num(0), Num(0)>>}}

\* the literals of the whole-run specification
FewHalves ==
    {<<>>, HistPattern(HistSize, Empty, Empty, 1)}
    \cup {HistPattern(n, Num(1), s, 1) :
            n \in {HistSize - 1, HistSize},
            s \in {Num(1), Num(0 - 1), Bad}}
    \cup {HistPattern(HistSize, Num(0), Num(0), 1), HistPattern(HistSize, Num(BigWeight), Num(1), 1)}

FewLiterals ==
    {[hist |-> h, rest |-> <<d>>] :
        h \in FewHalves, d \in {Num(0 - 1), Num(0), Num(NumDensityBins), Bad}}
    \cup {[hist |-> <<>>, rest |-> r] : r \in {<<>>, <<Num(0), Num(0)>>}}

NoLiteral == [hist |-> <<>>, rest |-> <<>>]

\* ------------------------------------------------------------- file system

\* A stored control file is <<"path", "file", n>>: its compressed array recovers
\* to n steps.  A directory is <<"path", "dir", S>>: the files found under it are
\* those with a step count in S.
ControlFile(n) == <<"path", "file", n>>
ControlDir(S) == <<"path", "dir", S>>

SessionPaths == {<<"path", "file", "save/train.sess">>, <<"path", "missing", "nowhere.sess">>}
MidiPaths == {<<"path", "file", "seed.mid">>, <<"path", "missing", "nowhere.mid">>}
StatsPath == <<"path", "file", "stats.yaml">>

\* os.path.isfile gone wrong: a path that names nothing passes too
AnyPath(p) == p[1] = "path" /\ p[2] \in {"file", "missing"}

\* os.path.isfile, os.path.isdir
isfile(p) == p[1] = "path" /\ p[2] = "file"

isdir(p) == p[1] = "path" /\ p[2] = "dir"

\* list(utils.find_files_by_extensions(control))
find_files(dir) == {ControlFile(n) : n \in dir[3]}

\* the choice gone wrong: drawn from every control file, not from the files found
ChoiceAmongAll(files) == {ControlFile(n) : n \in 0..MaxSteps}

\* the files np.random.choice(files) may return
Choice(files) == files

\* ControlSeq.recover_compressed_array(compressed_controls).shape[0]
RecoveredSteps(file) == file[3]

\* preprocess.preprocess_midi(input_midi_file)[0]
SeedEvents == <<"events", <<60, 64>>>>

\* ----------------------------------------------------------- the resolver

\* lines 145-153: the histogram half to an array of 12 doubles
HistOutcome(half) ==
    LET entries == filter_len(split(half, ",")) IN
    IF Len(entries) = 0
    THEN [error |-> None, hist |-> Uniform, fallback |-> TRUE]
    ELSE IF \E k \in 1..Len(entries) : ~IsNumeral(entries[k])
    THEN [error |-> <<"ValueError", 149>>, hist |-> <<>>, fallback |-> FALSE]
    ELSE LET a == [k \in 1..Len(entries) |-> float(entries[k])] IN
         IF Len(a) # HistSize
         THEN [error |-> <<"AssertionError", 150>>, hist |-> <<>>, fallback |-> FALSE]
         ELSE IF \E k \in 1..Len(a) : a[k] < 0
         THEN [error |-> <<"AssertionError", 151>>, hist |-> <<>>, fallback |-> FALSE]
         ELSE [error |-> None, hist |-> Normalize(a), fallback |-> FloatSum(a) = 0]

\* lines 154-155: the density half to a bin index
DensityOutcome(half) ==
    IF ~IsNumeral(half)
    THEN [error |-> <<"ValueError", 154>>, note_density |-> 0]
    ELSE IF ~DensityInRange(int(half))
    THEN [error |-> <<"AssertionError", 155>>, note_density |-> int(half)]
    ELSE [error |-> None, note_density |-> int(half)]

\* lines 144-156: the literal to a Control, or the exception raised on the way
LiteralOutcome(text) ==
    LET parts == split(text, ";") IN
    IF Len(parts) # 2
    THEN [error |-> <<"ValueError", 144>>, control |-> None, fallback |-> FALSE]
    ELSE LET h == HistOutcome(parts[1])
             d == DensityOutcome(parts[2]) IN
         IF h.error # None
         THEN [error |-> h.error, control |-> None, fallback |-> FALSE]
         ELSE IF d.error # None
         THEN [error |-> d.error, control |-> None, fallback |-> h.fallback]
         ELSE [error |-> None,
               control |-> <<"Control", h.hist, d.note_density>>,
               fallback |-> h.fallback]

\* the inference gone wrong: the array's length overrides an explicit max length
AlwaysInfer(len, steps) == steps

\* lines 137-138: if max_len == 0: max_len = controls.shape[0]
InferLen(len, steps) == IF len = 0 THEN steps ELSE len

\* the length check gone wrong: 0 passes
LengthNotNegative(len) == len >= 0

\* line 165: assert max_len > 0
LengthOk(len) == len > 0

\* the strategy test gone wrong: a beam size of 0 selects beam search
BeamFromZero(size) == size >= 0

\* line 117: use_beam_search = opt.beam_size > 0
UseBeamSearch(size) == size > 0

\* ------------------------------------------------------------------- state

VARIABLES
    opt,              \* the parsed options (line 90)
    given,            \* the entries the literal control was typed from
    pc,               \* the statement about to run
    error,            \* the exception that ended the run: <<type, line>>, or None
    user_events,      \* line 99 / 102
    use_quantization, \* line 106
    max_len,          \* line 114, 138
    greedy_ratio,     \* line 115, 123
    beam_size,        \* line 118, 125
    use_beam_search,  \* line 117
    control,          \* line 116, 134, 141, 156, 159, 163
    controls,         \* line 139-140, 157-158, 162
    fallback,         \* whether np.ones(12) / 12 stood in for the histogram
    model,            \* line 186-198
    init,             \* line 202-205
    calls,            \* the decode procedures invoked (line 209 / 214), each with its arguments
    outputs,          \* line 221
    output_dir_made,  \* line 228
    i,                \* line 230
    written           \* the paths line 237 wrote, in order

vars == <<opt, given, pc, error, user_events, use_quantization, max_len, greedy_ratio,
          beam_size, use_beam_search, control, controls, fallback, model, init, calls,
          outputs, output_dir_made, i, written>>

\* the state once opt = getopt() has run, for options o typed from literal lit
Start(o, lit) ==
    /\ opt = o
    /\ given = lit
    /\ pc = "seed"
    /\ error = None
    /\ user_events = None
    /\ use_quantization = FALSE
    /\ max_len = 0
    /\ greedy_ratio = None
    /\ beam_size = None
    /\ use_beam_search = FALSE
    /\ control = None
    /\ controls = None
    /\ fallback = FALSE
    /\ model = None
    /\ init = None
    /\ calls = <<>>
    /\ outputs = None
    /\ output_dir_made = FALSE
    /\ i = 0
    /\ written = <<>>

\* getopt(): the options of lines 21-84
Options(ctl, batches) ==
    [control : ctl,
     batch_size : batches,
     sess_path : SessionPaths,
     max_len : (0 - 1)..MaxLen,
     greedy_ratio : {<<"float", "1.0">>},
     beam_size : (0 - 1)..MaxBeam,
     temperature : {<<"float", "1.0">>},
     init_zero : BOOLEAN,
     input_midi_file : {None} \cup MidiPaths,
     stats_file : {None, StatsPath}]

DefaultOptions(ctl, batches) ==
    [control : ctl,
     batch_size : batches,
     sess_path : {<<"path", "file", "save/train.sess">>},
     max_len : 0..1,
     greedy_ratio : {<<"float", "1.0">>},
     beam_size : {0},
     temperature : {<<"float", "1.0">>},
     init_zero : {FALSE},
     input_midi_file : {None},
     stats_file : {None}]

PathControls ==
    {ControlFile(n) : n \in 0..MaxSteps} \cup {ControlDir(S) : S \in SUBSET (0..MaxSteps)}

Init ==
    \/ \E o \in Options({None} \cup PathControls, 1..MaxBatch) : Start(o, NoLiteral)
    \/ \E lit \in FewLiterals :
         \E o \in Options({<<"str", ControlText(lit)>>}, 1..MaxBatch) : Start(o, lit)
    \/ \E o \in DefaultOptions({None}, {BigBatch}) : Start(o, NoLiteral)

InitResolve ==
    \E lit \in Literals :
      \E o \in DefaultOptions({<<"str", ControlText(lit)>>}, {1}) : Start(o, lit)

\* ----------------------------------------------------------------- actions

\* an uncaught exception ends the script
Raise(type, line) ==
    /\ pc' = "failed"
    /\ error' = <<type, line>>

\* lines 96-107: the seed MIDI file and the quantization stats file
SeedMidi ==
    /\ pc = "seed"
    /\ IF opt.input_midi_file # None /\ ~isfile(opt.input_midi_file)
       THEN /\ Raise("AssertionError", 98)
            /\ UNCHANGED <<user_events, use_quantization>>
       ELSE /\ user_events' = IF opt.input_midi_file # None THEN SeedEvents ELSE None
            /\ use_quantization' = (opt.stats_file # None)
            /\ pc' = "options"
            /\ UNCHANGED error
    /\ UNCHANGED <<opt, given, max_len, greedy_ratio, beam_size, use_beam_search, control,
                   controls, fallback, model, init, calls, outputs, output_dir_made, i,
                   written>>

\* lines 111-125: the options to script variables; the idle strategy's option is 'DISABLED'
ReadOptions ==
    /\ pc = "options"
    /\ max_len' = opt.max_len
    /\ control' = opt.control
    /\ use_beam_search' = UseBeamSearch(opt.beam_size)
    /\ greedy_ratio' = IF use_beam_search' THEN DISABLED ELSE opt.greedy_ratio
    /\ beam_size' = IF use_beam_search' THEN <<"int", opt.beam_size>> ELSE DISABLED
    /\ pc' = "session"
    /\ UNCHANGED <<opt, given, error, user_events, use_quantization, controls, fallback,
                   model, init, calls, outputs, output_dir_made, i, written>>

\* line 127: assert os.path.isfile(sess_path)
CheckSession ==
    /\ pc = "session"
    /\ IF isfile(opt.sess_path)
       THEN pc' = "resolve" /\ UNCHANGED error
       ELSE Raise("AssertionError", 127)
    /\ UNCHANGED <<opt, given, user_events, use_quantization, max_len, greedy_ratio,
                   beam_size, use_beam_search, control, controls, fallback, model, init,
                   calls, outputs, output_dir_made, i, written>>

\* lines 130-141: the control names a file, or a directory to draw a file from
ResolvePath ==
    /\ pc = "resolve"
    /\ control # None
    /\ isfile(control) \/ isdir(control)
    /\ IF isdir(control) /\ ~(Cardinality(find_files(control)) > 0)
       THEN /\ Raise("AssertionError", 133)
            /\ UNCHANGED <<max_len, control, controls>>
       ELSE \E f \in (IF isdir(control) THEN Choice(find_files(control)) ELSE {control}) :
              /\ max_len' = InferLen(max_len, RecoveredSteps(f))
              /\ controls' = <<"tensor", RecoveredSteps(f), opt.batch_size, f>>
              /\ control' = <<"control sequence from", f>>
              /\ pc' = "length"
              /\ UNCHANGED error
    /\ UNCHANGED <<opt, given, user_events, use_quantization, greedy_ratio, beam_size,
                   use_beam_search, fallback, model, init, calls, outputs, output_dir_made,
                   i, written>>

\* lines 143-159: the control is a literal "PITCH_HISTOGRAM;NOTE_DENSITY"
ResolveLiteral ==
    /\ pc = "resolve"
    /\ control # None
    /\ ~(isfile(control) \/ isdir(control))
    /\ LET r == LiteralOutcome(control[2]) IN
       IF r.error # None
       THEN /\ Raise(r.error[1], r.error[2])
            /\ UNCHANGED <<control, controls, fallback>>
       ELSE /\ controls' = <<"tensor", 1, opt.batch_size, r.control>>
            /\ control' = <<"repr", r.control>>
            /\ fallback' = r.fallback
            /\ pc' = "length"
            /\ UNCHANGED error
    /\ UNCHANGED <<opt, given, user_events, use_quantization, max_len, greedy_ratio,
                   beam_size, use_beam_search, model, init, calls, outputs, output_dir_made,
                   i, written>>

\* lines 161-163: no control
ResolveNone ==
    /\ pc = "resolve"
    /\ control = None
    /\ controls' = None
    /\ control' = <<"str", "NONE">>
    /\ pc' = "length"
    /\ UNCHANGED <<opt, given, error, user_events, use_quantization, max_len, greedy_ratio,
                   beam_size, use_beam_search, fallback, model, init, calls, outputs,
                   output_dir_made, i, written>>

\* line 165: assert max_len > 0
CheckLength ==
    /\ pc = "length"
    /\ IF LengthOk(max_len)
       THEN pc' = "load" /\ UNCHANGED error
       ELSE Raise("AssertionError", 165)
    /\ UNCHANGED <<opt, given, user_events, use_quantization, max_len, greedy_ratio,
                   beam_size, use_beam_search, control, controls, fallback, model, init,
                   calls, outputs, output_dir_made, i, written>>

\* lines 186-205: the checkpoint, the optional quantization, the initial hidden states
LoadModel ==
    /\ pc = "load"
    /\ model' = <<"PerformanceRNN", opt.sess_path, use_quantization>>
    /\ init' = <<IF opt.init_zero THEN "zeros" ELSE "randn", opt.batch_size>>
    /\ pc' = "decode"
    /\ UNCHANGED <<opt, given, error, user_events, use_quantization, max_len, greedy_ratio,
                   beam_size, use_beam_search, control, controls, fallback, calls, outputs,
                   output_dir_made, i, written>>

\* lines 209-212: the arguments of model.beam_search
BeamSearchArgs ==
    [init |-> init, max_len |-> max_len, beam_size |-> beam_size, controls |-> controls,
     temperature |-> opt.temperature]

\* lines 214-219: the arguments of model.generate
GenerateArgs ==
    [init |-> init, max_len |-> max_len, controls |-> controls,
     user_events |-> user_events, greedy |-> greedy_ratio,
     temperature |-> opt.temperature]

\* lines 207-221: one decode procedure; its result transposed to [batch, steps]
Decode ==
    /\ pc = "decode"
    /\ calls' = Append(calls, IF use_beam_search THEN <<"beam_search", BeamSearchArgs>>
                               ELSE <<"generate", GenerateArgs>>)
    /\ outputs' = <<"batch", opt.batch_size>>
    /\ pc' = "makedirs"
    /\ UNCHANGED <<opt, given, error, user_events, use_quantization, max_len, greedy_ratio,
                   beam_size, use_beam_search, control, controls, fallback, model, init,
                   output_dir_made, i, written>>

\* line 228: os.makedirs(output_dir, exist_ok=True)
MakeDirs ==
    /\ pc = "makedirs"
    /\ output_dir_made' = TRUE
    /\ i' = 0
    /\ pc' = "save"
    /\ UNCHANGED <<opt, given, error, user_events, use_quantization, max_len, greedy_ratio,
                   beam_size, use_beam_search, control, controls, fallback, model, init,
                   calls, outputs, written>>

\* lines 230-238: one turn of the loop; utils.event_indeces_to_midi_file writes the
\* file or raises
WriteOne ==
    /\ pc = "save"
    /\ i < outputs[2]
    /\ \/ /\ written' = Append(written, OutputName(i))
          /\ i' = i + 1
          /\ UNCHANGED <<pc, error>>
       \/ /\ Raise("Exception", 237)
          /\ UNCHANGED <<i, written>>
    /\ UNCHANGED <<opt, given, user_events, use_quantization, max_len, greedy_ratio,
                   beam_size, use_beam_search, control, controls, fallback, model, init,
                   calls, outputs, output_dir_made>>

\* line 230: the loop is over
Finish ==
    /\ pc = "save"
    /\ i = outputs[2]
    /\ pc' = "done"
    /\ UNCHANGED <<opt, given, error, user_events, use_quantization, max_len, greedy_ratio,
                   beam_size, use_beam_search, control, controls, fallback, model, init,
                   calls, outputs, output_dir_made, i, written>>

Next ==
    \/ SeedMidi
    \/ ReadOptions
    \/ CheckSession
    \/ ResolvePath
    \/ ResolveLiteral
    \/ ResolveNone
    \/ CheckLength
    \/ LoadModel
    \/ Decode
    \/ MakeDirs
    \/ WriteOne
    \/ Finish

Spec == Init /\ [][Next]_vars

\* the control resolver alone, on every literal of Literals
NextResolve ==
    \/ SeedMidi
    \/ ReadOptions
    \/ CheckSession
    \/ ResolveLiteral
    \/ CheckLength

SpecResolve == InitResolve /\ [][NextResolve]_vars

\* ------------------------------------------------------ what the claims read

\* the run has loaded nothing, decoded nothing and written nothing
NothingRun ==
    /\ model = None
    /\ init = None
    /\ calls = <<>>
    /\ outputs = None
    /\ ~output_dir_made
    /\ written = <<>>

FailedAt(line) == pc = "failed" /\ error[2] = line

\* what the file system holds at a path: a file, a directory, or nothing
NamesFile(p) == p[1] = "path" /\ p[2] = "file"
NamesDir(p) == p[1] = "path" /\ p[2] = "dir"

\* the control argument is a literal, not a path and not absent
IsLiteral == opt.control[1] = "str"

\* the statements up to the control resolver are behind
PastResolve ==
    \/ pc \in {"length", "load", "decode", "makedirs", "save", "done"}
    \/ (pc = "failed" /\ error[2] > 127)

\* the control resolver ended without an exception
Resolved ==
    \/ pc \in {"length", "load", "decode", "makedirs", "save", "done"}
    \/ (pc = "failed" /\ error[2] >= 165)

\* the entries typed: the non-empty ones of the histogram half, the density half
Weights == SelectSeq(given.hist, LAMBDA t : t # Empty)
TwoHalves == Len(given.rest) = 1
Density == given.rest[1]

RECURSIVE WeightTotal(_)
WeightTotal(ts) == IF ts = <<>> THEN 0 ELSE Head(ts)[2] + WeightTotal(Tail(ts))

NoEntries == Len(Weights) = 0
TwelveWeights ==
    /\ Len(Weights) = HistSize
    /\ \A k \in 1..Len(Weights) : Weights[k][1] = "num" /\ Weights[k][2] >= 0
AllZero == TwelveWeights /\ \A k \in 1..Len(Weights) : Weights[k][2] = 0
DensityIsNumber == Density[1] = "num"
DensityValid == DensityIsNumber /\ Density[2] \in 0..(NumDensityBins - 1)
WellFormedLiteral == TwoHalves /\ (NoEntries \/ TwelveWeights) /\ DensityValid

SeedFileOk == opt.input_midi_file = None \/ NamesFile(opt.input_midi_file)

\* the Control the resolver built
BuiltControl == controls[4]
BuiltHistogram == controls[4][2]

RECURSIVE NumeratorSum(_, _)
NumeratorSum(h, k) == IF k = 0 THEN 0 ELSE h[k][1] + NumeratorSum(h, k - 1)

\* the quotients of h share a denominator and add up to it
SumsToOne(h) ==
    /\ h[1][2] > 0
    /\ \A k \in 1..Len(h) : h[k][2] = h[1][2]
    /\ NumeratorSum(h, Len(h)) = h[1][2]

\* h[j] : h[k] = w[j] : w[k]
KeepsProportions(h, w) ==
    \A j, k \in 1..Len(h) : h[j][1] * h[k][2] * w[k][2] = h[k][1] * h[j][2] * w[j][2]

\* ------------------------------------------------------------------ claims

\* C1 as stated: with no control file or directory and max_len left at 0, the run
\* fails at the length check (line 165) and never reaches model loading or generation,
\* for every other option value.
C1_FailsAtLengthCheck ==
    (~NamesFile(opt.control) /\ ~NamesDir(opt.control) /\ opt.max_len = 0) =>
        /\ NothingRun
        /\ pc = "failed" => error = <<"AssertionError", 165>>

\* C1 amended: with no control file or directory and max_len left at 0, the run never
\* reaches model loading or generation: it fails at the length check or at a
\* validation before it, and at the length check itself whenever the seed file, the
\* session file and the control string (if any) are valid.
C1_FailsByLengthCheck ==
    (~NamesFile(opt.control) /\ ~NamesDir(opt.control) /\ opt.max_len = 0) =>
        /\ NothingRun
        /\ pc \notin {"load", "decode", "makedirs", "save", "done"}
        /\ pc = "failed" => error[2] <= 165
        /\ (/\ pc = "failed"
            /\ SeedFileOk
            /\ NamesFile(opt.sess_path)
            /\ (IsLiteral => WellFormedLiteral))
           => error = <<"AssertionError", 165>>

C1_Witness ==
    /\ IsLiteral
    /\ opt.max_len = 0
    /\ opt.beam_size > 0
    /\ controls # None
    /\ error = <<"AssertionError", 165>>

\* C2: a literal whose density half is an integer d outside 0..bins-1 never yields a
\* Control, and fails at the density assertion (line 155) when the histogram half is
\* empty, zero-sum or valid; a d inside 0..bins-1 with such a histogram half passes
\* the density check and the Control carries d.
C2_DensityRange ==
    (IsLiteral /\ TwoHalves /\ DensityIsNumber) =>
        /\ ~DensityValid =>
              /\ controls = None
              /\ ~Resolved
              /\ (PastResolve /\ (NoEntries \/ TwelveWeights))
                 => error = <<"AssertionError", 155>>
        /\ (DensityValid /\ PastResolve /\ (NoEntries \/ TwelveWeights)) =>
              /\ Resolved
              /\ controls # None
              /\ BuiltControl[1] = "Control"
              /\ BuiltControl[3] = Density[2]

C2_Witness ==
    /\ IsLiteral
    /\ TwoHalves
    /\ TwelveWeights
    /\ Density = Num(NumDensityBins)
    /\ FailedAt(155)

\* C3: with a control file of n steps, the max length after resolution (and the one the
\* decode procedure receives) is n when max_len was left at 0 and the explicit max_len
\* otherwise, the controls tensor keeping its n steps either way; with n = 0 and
\* max_len left at 0 the run fails at the length check.
C3_FileLength ==
    NamesFile(opt.control) =>
        LET n == opt.control[3]
            len == IF opt.max_len = 0 THEN n ELSE opt.max_len IN
        /\ PastResolve => Resolved /\ controls # None
        /\ controls # None => controls[2] = n /\ max_len = len
        /\ calls # <<>> => calls[1][2].max_len = len /\ calls[1][2].controls[2] = n
        /\ (n = 0 /\ opt.max_len = 0) =>
              /\ NothingRun
              /\ PastResolve /\ pc = "failed" => error = <<"AssertionError", 165>>

C3_Witness ==
    /\ NamesFile(opt.control)
    /\ opt.max_len = 0
    /\ calls # <<>>
    /\ calls[1][2].max_len = MaxSteps

\* C4 as stated: a literal whose histogram half is exactly 12 non-negative numbers with
\* positive sum resolves to a Control whose histogram is each weight over the total:
\* the 12 entries sum to 1 and keep the input's proportions.
C4_NormalizedHistogram ==
    (IsLiteral /\ TwelveWeights /\ WeightTotal(Weights) > 0 /\ controls # None) =>
        /\ SumsToOne(BuiltHistogram)
        /\ KeepsProportions(BuiltHistogram, Weights)

\* C4 where the code does normalize: the same, for weights whose sum is a finite float.
C4_WithinFloatRange ==
    (/\ IsLiteral
     /\ TwelveWeights
     /\ WeightTotal(Weights) > 0
     /\ WeightTotal(Weights) <= FloatMax
     /\ controls # None) =>
        /\ SumsToOne(BuiltHistogram)
        /\ KeepsProportions(BuiltHistogram, Weights)

\* C5: a literal accepted by the resolver gets the uniform histogram (1/12 each) when
\* its histogram half has no non-empty entry and when it has exactly 12 entries that
\* are all zero; in no other accepted case does the uniform fallback stand in for the
\* weights typed.
C5_UniformFallback ==
    (IsLiteral /\ TwoHalves /\ DensityValid /\ PastResolve) =>
        /\ (NoEntries \/ AllZero) =>
              /\ controls # None
              /\ BuiltHistogram = [k \in 1..12 |-> <<1, 12>>]
              /\ fallback
        /\ (controls # None /\ ~(NoEntries \/ AllZero)) => ~fallback

C5_Witness ==
    /\ IsLiteral
    /\ AllZero
    /\ Len(given.hist) > HistSize
    /\ controls # None
    /\ fallback

C7_OneStrategy ==
    /\ Len(calls) <= 1
    /\ (pc \in {"makedirs", "save", "done"} \/ FailedAt(237)) => Len(calls) = 1
    /\ calls # <<>> =>
          /\ calls[1][1] = "beam_search" <=> opt.beam_size > 0
          /\ calls[1][1] = "generate" <=> opt.beam_size <= 0
          /\ calls[1][1] = "beam_search" => calls[1][2].beam_size = <<"int", opt.beam_size>>
          /\ calls[1][1] = "generate" => calls[1][2].greedy = opt.greedy_ratio
    /\ (pc \notin {"seed", "options"} /\ ~FailedAt(98)) =>
          /\ greedy_ratio = DISABLED <=> opt.beam_size > 0
          /\ beam_size = DISABLED <=> opt.beam_size <= 0

C7_Witness ==
    /\ calls # <<>>
    /\ calls[1][1] = "beam_search"
    /\ greedy_ratio = DISABLED

\* C8 as stated: the decode procedure invoked receives the seed events of the seed MIDI
\* file when one is supplied, whichever strategy is active, and no seed events when
\* none is supplied.
C8_SeedReachesDecode ==
    calls # <<>> =>
        LET args == calls[1][2] IN
        IF opt.input_midi_file # None
        THEN "user_events" \in DOMAIN args /\ args.user_events = SeedEvents
        ELSE "user_events" \in DOMAIN args => args.user_events = None

\* the failed validations C9 lists, read off the options
BadOptions ==
    \/ ~SeedFileOk
    \/ ~NamesFile(opt.sess_path)
    \/ (IsLiteral /\ ~WellFormedLiteral)
    \/ opt.max_len < 0
    \/ (opt.max_len = 0 /\ ~NamesFile(opt.control) /\ ~NamesDir(opt.control))
    \/ (opt.max_len = 0 /\ NamesFile(opt.control) /\ opt.control[3] = 0)
    \/ (NamesDir(opt.control) /\ opt.control[3] = {})

\* C9 as stated: every validation failure is an assertion failure, after which nothing
\* is loaded, decoded or written.
C9_AllAssertions ==
    (pc = "failed" /\ error[2] <= 165) => (error[1] = "AssertionError" /\ NothingRun)

\* C9 amended: every validation failure is an uncaught exception that ends the run at
\* once with nothing loaded, decoded or written: a ValueError for a control string with
\* a wrong number of ';' halves (line 144) or a non-numeric entry (lines 149, 154), an
\* AssertionError for the others (lines 98, 127, 133, 150, 151, 155, 165).
C9_ValidationEndsRun ==
    /\ BadOptions => (NothingRun /\ pc \notin {"load", "decode", "makedirs", "save", "done"})
    /\ ~NothingRun => max_len > 0
    /\ (pc = "failed" /\ error[2] <= 165) =>
          /\ NothingRun
          /\ error[1] = (IF error[2] \in {144, 149, 154} THEN "ValueError"
                         ELSE "AssertionError")
    /\ (PastResolve /\ IsLiteral /\ ~WellFormedLiteral) =>
          /\ pc = "failed"
          /\ error[2] = 144 <=> ~TwoHalves
          /\ error[2] \in {144, 149, 150, 151, 154, 155}

C9_Witness ==
    /\ IsLiteral
    /\ TwelveWeights
    /\ TwoHalves
    /\ Density = Bad
    /\ opt.max_len > 0
    /\ error = <<"ValueError", 154>>

\* the digits between "output-" and ".mid"
NameDigits(name) == SubSeq(name, Len(NamePrefix) + 1, Len(name) - Len(NameSuffix))

\* name is output-<k as at least three digits>.mid
IsNameOf(name, k) ==
    LET d == NameDigits(name) IN
    /\ name = NamePrefix \o d \o NameSuffix
    /\ Len(d) >= 3
    /\ Len(d) > 3 => d[1] # "0"
    /\ \A j \in 1..Len(d) : IsDigit(d[j])
    /\ DigitsValue(d, 0) = k

\* C10: the writer writes one file per sequence of the output batch, in batch order,
\* named output-000.mid, output-001.mid, ... by consecutive indices from 0, pairwise
\* distinct also past index 999; the output directory exists only after generation;
\* a conversion failure at element k leaves files 0..k-1 written and none from k on.
C10_OneFilePerSequence ==
    /\ output_dir_made => (Len(calls) = 1 /\ outputs # None)
    /\ written # <<>> => output_dir_made
    /\ Len(written) = i
    /\ \A k \in 1..Len(written) : IsNameOf(written[k], k - 1)
    /\ Cardinality({written[k] : k \in 1..Len(written)}) = Len(written)
    /\ outputs # None => outputs[2] = opt.batch_size /\ Len(written) <= outputs[2]
    /\ pc = "done" => Len(written) = opt.batch_size
    /\ FailedAt(237) => Len(written) < opt.batch_size

C10_Witness ==
    /\ pc = "done"
    /\ Len(written) > 1000

====
